---- MODULE Spec2Model ----
(***************************************************************************)
(* A model of scissors/__init__.py: the SCISSORS class (lazy projection    *)
(* matrix built from the spectral decomposition of the basis kernel        *)
(* matrix, embedding of inner-product rows, Tanimoto coefficients between  *)
(* embedded vectors).                                                      *)
(*                                                                         *)
(* Numbers.  numpy works on float64; the model works on exact rationals    *)
(* <<num, den>> in lowest terms with den > 0, and on the one non-finite    *)
(* value <<1, 0>> (what np.reciprocal gives for 0, and anything computed   *)
(* from it).  Eigenvalues are drawn from signed perfect squares so that    *)
(* np.sqrt(np.fabs(.)) is exact.  Rounding is outside the model.           *)
(*                                                                         *)
(* Arrays.  A 2-D array is a record [r, c, e] (rows, columns, e[i][j]);    *)
(* the shape is kept explicitly so that 0 x n and n x 0 arrays differ.     *)
(* A 1-D array is a record [n, e] (length, e[i]).  Python's None is the    *)
(* record None.                                                            *)
(***************************************************************************)
EXTENDS Integers, Sequences, FiniteSets, TLC

\* ------------------------------------------------------------------ bounds
\* Largest basis size n (bb_ip is n x n).
MaxN == 2
\* Largest number of library rows m handed to get_vectors / get_tanimotos.
MaxM == 2
\* The build counter stops counting here (it only caps the state space).
MaxBuilds == 2
\* Entries of the vectors handed to the static vector_tanimotos: -MaxVal..MaxVal.
MaxVal == 1

None == [none |-> TRUE]

\* ------------------------------------------------------------ rationals
Abs(i) == IF i < 0 THEN -i ELSE i

RECURSIVE Gcd(_, _)
Gcd(a, b) == IF b = 0 THEN a ELSE Gcd(b, a % b)

NonFinite == <<1, 0>>
IsFinite(q) == q[2] # 0

DivBoth(n, d, g) == <<n \div g, d \div g>>

\* n/d in lowest terms, d # 0.
Frac(n, d) == DivBoth(IF d < 0 THEN -n ELSE n, Abs(d), Gcd(Abs(n), Abs(d)))

R(i) == <<i, 1>>
Zero == R(0)
One == R(1)

RAdd(a, b) ==
    IF ~IsFinite(a) \/ ~IsFinite(b) THEN NonFinite
    ELSE Frac(a[1] * b[2] + b[1] * a[2], a[2] * b[2])

RNeg(a) == IF ~IsFinite(a) THEN NonFinite ELSE <<-a[1], a[2]>>

RSub(a, b) == RAdd(a, RNeg(b))

RMul(a, b) ==
    IF ~IsFinite(a) \/ ~IsFinite(b) THEN NonFinite
    ELSE Frac(a[1] * b[1], a[2] * b[2])

\* a / b for finite a and finite nonzero b.
RDiv(a, b) == Frac(a[1] * b[2], a[2] * b[1])

RLess(a, b) == a[1] * b[2] < b[1] * a[2]

\* np.fabs
Fabs(a) == <<Abs(a[1]), a[2]>>

ISqrt(n) == CHOOSE k \in 0..n : k * k = n

\* np.sqrt on a non-negative rational whose numerator and denominator are squares.
Sqrt(a) == <<ISqrt(a[1]), ISqrt(a[2])>>

\* np.reciprocal: 1/0 is inf (a warning, not an exception).
Reciprocal(a) ==
    IF ~IsFinite(a) \/ a[1] = 0 THEN NonFinite ELSE Frac(a[2], a[1])

\* ------------------------------------------------------------- arrays
Vec(len, F(_)) == [n |-> len, e |-> [i \in 1..len |-> F(i)]]

Mat(nr, nc, F(_, _)) ==
    [r |-> nr, c |-> nc, e |-> [i \in 1..nr |-> [j \in 1..nc |-> F(i, j)]]]

\* x.T
Transpose(x) == Mat(x.c, x.r, LAMBDA i, j : x.e[j][i])

RECURSIVE SumTo(_, _)
SumTo(F(_), k) == IF k = 0 THEN Zero ELSE RAdd(SumTo(F, k - 1), F(k))

\* np.asmatrix(x) * np.asmatrix(y), for x.c = y.r.
MatMul(x, y) ==
    Mat(x.r, y.c, LAMBDA i, j : SumTo(LAMBDA k : RMul(x.e[i][k], y.e[k][j]), x.c))

\* np.diag of a 1-D array: the square matrix with it on the diagonal.
Diag(v) == Mat(v.n, v.n, LAMBDA i, j : IF i = j THEN v.e[i] ELSE Zero)

\* np.diag of a 2-D array: its diagonal as a 1-D array.
DiagOf(x) == Vec(IF x.r < x.c THEN x.r ELSE x.c, LAMBDA i : x.e[i][i])

\* x[:, idx]: the columns of x picked by the index sequence idx.
TakeCols(x, idx) == Mat(x.r, idx.n, LAMBDA i, j : x.e[i][idx.e[j]])

\* x[:k] on rows, with Python's slice rule for a negative stop.
SliceStop(len, k) ==
    IF k < 0 THEN (IF len + k < 0 THEN 0 ELSE len + k)
    ELSE (IF k > len THEN len ELSE k)

HeadRows(x, k) == Mat(SliceStop(x.r, k), x.c, LAMBDA i, j : x.e[i][j])

HeadCols(x, k) == Mat(x.r, SliceStop(x.c, k), LAMBDA i, j : x.e[i][j])

\* v[:k]
HeadVec(v, k) == Vec(SliceStop(v.n, k), LAMBDA i : v.e[i])

AllFinite(x) == \A i \in 1..x.r : \A j \in 1..x.c : IsFinite(x.e[i][j])

\* ------------------------------------------------- np.argsort, slicing
\* v[::-1]
Reverse(v) == Vec(v.n, LAMBDA i : v.e[v.n + 1 - i])

\* np.argsort(keys): the indices that sort keys ascending.  For arrays this
\* short numpy's default sort is an insertion sort, so ties keep their order.
Argsort(keys) ==
    LET n == keys.n
        Before(j, i) == RLess(keys.e[j], keys.e[i]) \/ (keys.e[j] = keys.e[i] /\ j < i)
        Rank(i) == 1 + Cardinality({j \in 1..n : Before(j, i)})
    IN  Vec(n, LAMBDA k : CHOOSE i \in 1..n : Rank(i) = k)

\* ------------------------------------------------ np.linalg.eigh (library)
\* eigh(K) of a symmetric K is a pair (w, v): w the eigenvalues ascending, the
\* columns of v orthonormal eigenvectors, K = v diag(w) v^T.  Which signs, and
\* which basis of a repeated eigenvalue, LAPACK returns is not fixed by that
\* contract, so an instance is drawn together with the decomposition eigh
\* returns for it (the variable eigh_out), from the families below.
EigVals == {R(-1), R(0), R(1), R(4)}

Ascending(n) ==
    {[n |-> n, e |-> w] : w \in
        {u \in [1..n -> EigVals] :
            \A i \in 1..n : \A j \in 1..n : i < j => ~RLess(u[j], u[i])}}

\* The cyclic shifts of 1..n.
Shifts(n) == {[i \in 1..n |-> ((i + k - 1) % n) + 1] : k \in 0..(n - 1)}

PermMatrix(n, p, s) ==
    Mat(n, n, LAMBDA i, j : IF p[j] = i THEN (IF j = 1 THEN R(s) ELSE One) ELSE Zero)

\* The rotation with cos = 3/5, sin = 4/5 in the first two coordinates.
Rot345(n) ==
    Mat(n, n, LAMBDA i, j :
        IF i > 2 \/ j > 2 THEN (IF i = j THEN One ELSE Zero)
        ELSE IF i = j THEN Frac(3, 5)
        ELSE IF i = 2 THEN Frac(4, 5) ELSE Frac(-4, 5))

OrthoBases(n) ==
    {PermMatrix(n, p, s) : p \in Shifts(n), s \in {1, -1}}
        \cup (IF n >= 2 THEN {Rot345(n)} ELSE {})

Recompose(w, v) == MatMul(MatMul(v, Diag(w)), Transpose(v))

\* --------------------------------------------- get_projection_matrix
\* RetainedDim with the comparisons loosened (every eigenvalue counted with
\* allow_imaginary, >= 0 without): the fault C2 guards against.
RetainedDimLoose(w, allow) ==
    IF allow THEN w.n
    ELSE Cardinality({i \in 1..w.n : ~RLess(w.e[i], Zero)})

\* dim: np.count_nonzero(e_vals != 0) with allow_imaginary, else (e_vals > 0)
RetainedDim(w, allow) ==
    IF allow THEN Cardinality({i \in 1..w.n : w.e[i] # Zero})
    ELSE Cardinality({i \in 1..w.n : RLess(Zero, w.e[i])})

\* np.argsort(np.fabs(e_vals))[::-1] with allow_imaginary, else np.argsort(e_vals)[::-1]
SortOrder(w, allow) ==
    IF allow THEN Reverse(Argsort(Vec(w.n, LAMBDA i : Fabs(w.e[i]))))
    ELSE Reverse(Argsort(w))

\* D = np.diag(np.reciprocal(np.sqrt(np.fabs(e_vals))))
ScalingD(ev) == Diag(Vec(ev.n, LAMBDA i : Reciprocal(Sqrt(Fabs(ev.e[i])))))

\* D_inv = np.diag(np.sqrt(np.fabs(e_vals)))
ScalingDinv(ev) == Diag(Vec(ev.n, LAMBDA i : Sqrt(Fabs(ev.e[i]))))

\* p = D V^T
ForwardProjection(ev, vecs) == MatMul(ScalingD(ev), Transpose(vecs))

\* InverseProjection scaled by D instead of D_inv: the fault C9 guards against.
InverseProjectionSameScale(ev, vecs) == MatMul(vecs, ScalingD(ev))

\* p_inv = V D_inv
InverseProjection(ev, vecs) == MatMul(vecs, ScalingDinv(ev))

\* Lines 80-87: the four values to cache, from the retained eigen-pairs.
Projections(ev, vecs) ==
    [e_vals |-> ev,
     e_vecs |-> vecs,
     projection_matrix |-> ForwardProjection(ev, vecs),
     inverse_projection_matrix |-> InverseProjection(ev, vecs)]

\* Reduce with e_vals[sort] left at full length (line 77 without [:dim]) in
\* the value cached as e_vals: the fault C11 guards against.
ReduceUntruncatedEigenvalues(eig, sort, dim) ==
    [Projections(HeadVec(Vec(sort.n, LAMBDA i : eig.w.e[sort.e[i]]), dim),
                 HeadCols(TakeCols(eig.v, sort), dim))
        EXCEPT !.e_vals = Vec(sort.n, LAMBDA i : eig.w.e[sort.e[i]])]

\* Lines 76-78: e_vals[sort][:dim] and e_vecs[:, sort][:, :dim]
Reduce(eig, sort, dim) ==
    Projections(HeadVec(Vec(sort.n, LAMBDA i : eig.w.e[sort.e[i]]), dim),
                HeadCols(TakeCols(eig.v, sort), dim))

\* Lines 63-87: what one run of get_projection_matrix computes from the
\* decomposition eig = [w, v] returned by eigh.
BuildProjection(eig, allow) ==
    Reduce(eig, SortOrder(eig.w, allow), RetainedDim(eig.w, allow))

\* ------------------------------------------------------- vector_tanimotos
\* get_squared_magnitudes as plain row sums (np.sum(x, axis=1)): the fault C4
\* guards against.
get_row_sums(x) == Vec(x.r, LAMBDA i : SumTo(LAMBDA k : x.e[i][k], x.c))

\* _get_squared_magnitudes: np.diag(np.inner(x, x))
get_squared_magnitudes(x) == DiagOf(MatMul(x, Transpose(x)))

\* np.meshgrid(x, y): two y.n x x.n arrays, x along the rows, y down the columns.
Meshgrid(x, y) ==
    [X |-> Mat(y.n, x.n, LAMBDA i, j : x.e[j]),
     Y |-> Mat(y.n, x.n, LAMBDA i, j : y.e[i])]

MatAdd(x, y) == Mat(x.r, x.c, LAMBDA i, j : RAdd(x.e[i][j], y.e[i][j]))

MatSub(x, y) == Mat(x.r, x.c, LAMBDA i, j : RSub(x.e[i][j], y.e[i][j]))

\* MaTrueDivide without the mask (np.true_divide): x/0 is not finite.  The
\* fault C5 guards against.
TrueDivideUnmasked(x, y) ==
    [r |-> x.r, c |-> x.c,
     mask |-> [i \in 1..x.r |-> [j \in 1..x.c |-> FALSE]],
     data |-> [i \in 1..x.r |-> [j \in 1..x.c |->
                 IF y.e[i][j][1] = 0 THEN NonFinite ELSE RDiv(x.e[i][j], y.e[i][j])]]]

\* np.ma.true_divide(x, y): a masked array, masked where the divisor is outside
\* the domain of the division.  numpy masks |x| * tiny >= |y| with tiny the
\* smallest normal float64 (2^-1022); for the magnitudes of this model that is
\* y = 0 exactly.
MaTrueDivide(x, y) ==
    [r |-> x.r, c |-> x.c,
     mask |-> [i \in 1..x.r |-> [j \in 1..x.c |-> y.e[i][j][1] = 0]],
     data |-> [i \in 1..x.r |-> [j \in 1..x.c |->
                 IF y.e[i][j][1] = 0 THEN x.e[i][j] ELSE RDiv(x.e[i][j], y.e[i][j])]]]

\* MaFilled that hands back the data under the mask (m.data): the fault C3
\* guards against.
MaData(m, v) == Mat(m.r, m.c, LAMBDA i, j : m.data[i][j])

\* np.ma.filled(m, v)
MaFilled(m, v) == Mat(m.r, m.c, LAMBDA i, j : IF m.mask[i][j] THEN v ELSE m.data[i][j])

\* The result of a call: err is "None" or the exception raised, val the value
\* returned (None when an exception was raised).
Raise(e) == [err |-> e, val |-> None]
Return(v) == [err |-> "None", val |-> v]

\* Lines 212-221, with grid = (b_overlap, a_overlap) as np.meshgrid returned them.
MaskedTanimotos(ab_overlap, grid) ==
    IF ~AllFinite(ab_overlap) \/ ~AllFinite(grid.Y) \/ ~AllFinite(grid.X)
    THEN Raise("AssertionError")
    ELSE Return(MaFilled(MaTrueDivide(ab_overlap,
                                      MatSub(MatAdd(grid.Y, grid.X), ab_overlap)),
                         Zero))

\* Lines 205-221, with both overlaps in hand.
Tanimotos(a, b, ao, bo) ==
    IF a.c # b.c \/ a.r # ao.n \/ b.r # bo.n THEN Raise("AssertionError")
    ELSE MaskedTanimotos(MatMul(a, Transpose(b)), Meshgrid(bo, ao))

\* vector_tanimotos defaulting b_overlap from a instead of b: the fault C10
\* guards against.
vector_tanimotos_b_from_a(a, b, a_overlap, b_overlap) ==
    Tanimotos(a, b,
              IF a_overlap = None THEN get_squared_magnitudes(a) ELSE a_overlap,
              IF b_overlap = None THEN get_squared_magnitudes(a) ELSE b_overlap)

\* Lines 170-221: the overlaps default to the squared magnitudes (200-203).
\* a_overlap, b_overlap: 1-D arrays or None.
vector_tanimotos(a, b, a_overlap, b_overlap) ==
    Tanimotos(a, b,
              IF a_overlap = None THEN get_squared_magnitudes(a) ELSE a_overlap,
              IF b_overlap = None THEN get_squared_magnitudes(b) ELSE b_overlap)

\* ------------------------------------------------------------------ state
VARIABLES
    bb_ip,                      \* self.bb_ip
    allow_imaginary,            \* self.allow_imaginary
    e_vals,                     \* self.e_vals (None until built)
    e_vecs,                     \* self.e_vecs
    projection_matrix,          \* self.projection_matrix
    inverse_projection_matrix,  \* self.inverse_projection_matrix
    eigh_out,                   \* what np.linalg.eigh(self.bb_ip) returns: [w, v]
    builds,                     \* how many times lines 63-92 have run on the instance
    ret,                        \* the call that has just returned, None between calls
    vt_in,                      \* the arguments of a static vector_tanimotos call
    pc,                         \* per concurrent caller: where it is in its call
    frame                       \* per concurrent caller: its call and local variables

cache == <<e_vals, e_vecs, projection_matrix, inverse_projection_matrix>>
vars == <<bb_ip, allow_imaginary, e_vals, e_vecs, projection_matrix,
          inverse_projection_matrix, eigh_out, builds, ret, vt_in, pc, frame>>

Threads == {1, 2}

\* The instance as one value, for the methods below.
Self ==
    [bb_ip |-> bb_ip, allow_imaginary |-> allow_imaginary, e_vals |-> e_vals,
     e_vecs |-> e_vecs, projection_matrix |-> projection_matrix,
     inverse_projection_matrix |-> inverse_projection_matrix]

\* ---------------------------------------------------------------- methods
\* A method maps the instance to [self: the instance afterwards, built: how
\* many times it ran lines 63-92, out: what it returned or raised].

\* Lines 89-92: the build result b is stored on the instance.
Store(self, b) ==
    [self EXCEPT !.e_vals = b.e_vals,
                 !.e_vecs = b.e_vecs,
                 !.projection_matrix = b.projection_matrix,
                 !.inverse_projection_matrix = b.inverse_projection_matrix]

Built1(self) == [self |-> self, built |-> 1, out |-> Return(self.projection_matrix)]

\* Lines 60-94: always recomputes and overwrites the four cached fields.
get_projection_matrix(self) ==
    Built1(Store(self, BuildProjection(eigh_out, self.allow_imaginary)))

Unbuilt(self) == [self |-> self, built |-> 0]

\* "if self.<field> is None: self.get_projection_matrix()"
Lazily(self, field) ==
    IF field = None THEN get_projection_matrix(self) ELSE Unbuilt(self)

Returning(s, v) == [self |-> s.self, built |-> s.built, out |-> v]

MaxDimOf(s) == Returning(s, Return(s.self.projection_matrix.r))

\* Lines 96-100
get_max_dim(self) == MaxDimOf(Lazily(self, self.projection_matrix))

EigenvaluesOf(s) == Returning(s, Return(s.self.e_vals))

\* Lines 102-106
get_eigenvalues(self) == EigenvaluesOf(Lazily(self, self.e_vals))

\* Lines 131-134.  max_dim is None or a Python value [type, v].
Truncate(vectors, max_dim) ==
    IF max_dim = None THEN Return(Transpose(vectors))
    ELSE IF max_dim.type # "int" THEN Raise("AssertionError")
    ELSE Return(Transpose(HeadRows(vectors, max_dim.v)))

\* Lines 129-134
Embed(s, ip, max_dim) ==
    Returning(s, Truncate(MatMul(s.self.projection_matrix, Transpose(ip)), max_dim))

EmbedChecked(s, self, ip, max_dim) ==
    IF ip.c # self.bb_ip.r THEN Returning(s, Raise("AssertionError"))
    ELSE Embed(s, ip, max_dim)

\* get_vectors with the shape assertion after the lazy build: the fault C6
\* guards against.
get_vectors_build_first(self, ip, max_dim) ==
    EmbedChecked(Lazily(self, self.projection_matrix), self, ip, max_dim)

\* Lines 108-134
get_vectors(self, ip, max_dim) ==
    IF ip.c # self.bb_ip.r
    THEN [self |-> self, built |-> 0, out |-> Raise("AssertionError")]
    ELSE Embed(Lazily(self, self.projection_matrix), ip, max_dim)

\* Lines 154-155, g what get_vectors did.
TanimotosOf(g, self_overlap) ==
    IF g.out.err # "None" THEN g
    ELSE Returning(g, vector_tanimotos(g.out.val, g.out.val, self_overlap, self_overlap))

\* Lines 136-155
get_tanimotos(self, ip, self_overlap, max_dim) ==
    TanimotosOf(get_vectors(self, ip, max_dim), self_overlap)

\* ------------------------------------------------------------------ inputs
\* A library-vs-basis inner-product array with m rows and c columns.
Lib(m, c) == Mat(m, c, LAMBDA i, j : R(2 * j - i - 1))

\* The ip arguments tried: the basis kernel itself, m x n arrays, and arrays
\* whose column count is one off the basis size n.
Ips ==
    {bb_ip} \cup {Lib(m, bb_ip.r) : m \in 1..MaxM}
            \cup {Lib(1, bb_ip.r - 1), Lib(1, bb_ip.r + 1)}

PyInt(k) == [type |-> "int", v |-> k]
PyFloat(k) == [type |-> "float", v |-> k]

MaxDims == {None} \cup {PyInt(k) : k \in (-1)..(MaxN + 1)} \cup {PyFloat(1)}

Ones(m) == Vec(m, LAMBDA i : One)

\* self_overlap arguments for m library rows: omitted, np.ones(m), or too long.
SelfOverlaps(m) == {None, Ones(m), Ones(m + 1)}

NoThreads == [t \in Threads |-> "idle"]

\* ------------------------------------------------------------------- Init
\* SCISSORS(bb_ip, allow_imaginary) with center=False (lines 49-58), for a
\* symmetric bb_ip = v diag(w) v^T.
Init ==
    \E n \in 1..MaxN : \E w \in Ascending(n) : \E v \in OrthoBases(n) :
        /\ bb_ip = Recompose(w, v)
        /\ eigh_out = [w |-> w, v |-> v]
        /\ allow_imaginary \in BOOLEAN
        /\ e_vals = None
        /\ e_vecs = None
        /\ projection_matrix = None
        /\ inverse_projection_matrix = None
        /\ builds = 0
        /\ ret = None
        /\ vt_in = None
        /\ pc = NoThreads
        /\ frame = NoThreads

\* ---------------------------------------------------------------- actions
\* A caller runs method result res to completion and holds what it returned.
Complete(res, call) ==
    /\ ret = None
    /\ builds + res.built <= MaxBuilds
    /\ e_vals' = res.self.e_vals
    /\ e_vecs' = res.self.e_vecs
    /\ projection_matrix' = res.self.projection_matrix
    /\ inverse_projection_matrix' = res.self.inverse_projection_matrix
    /\ builds' = builds + res.built
    /\ ret' = [op |-> call.op, ip |-> call.ip, max_dim |-> call.max_dim,
               self_overlap |-> call.self_overlap,
               err |-> res.out.err, val |-> res.out.val]
    /\ UNCHANGED <<bb_ip, allow_imaginary, eigh_out, vt_in, pc, frame>>

CallOf(op, ip, self_overlap, max_dim) ==
    [op |-> op, ip |-> ip, max_dim |-> max_dim, self_overlap |-> self_overlap]

Call_get_projection_matrix ==
    Complete(get_projection_matrix(Self), CallOf("get_projection_matrix", None, None, None))

Call_get_max_dim ==
    Complete(get_max_dim(Self), CallOf("get_max_dim", None, None, None))

Call_get_eigenvalues ==
    Complete(get_eigenvalues(Self), CallOf("get_eigenvalues", None, None, None))

Call_get_vectors ==
    \E ip \in Ips : \E max_dim \in MaxDims :
        Complete(get_vectors(Self, ip, max_dim), CallOf("get_vectors", ip, None, max_dim))

Call_get_tanimotos ==
    \E ip \in Ips : \E max_dim \in MaxDims : \E so \in SelfOverlaps(ip.r) :
        Complete(get_tanimotos(Self, ip, so, max_dim),
                 CallOf("get_tanimotos", ip, so, max_dim))

\* The caller lets go of the returned value and is free to call again.
Drop ==
    /\ ret # None
    /\ ret' = None
    /\ UNCHANGED <<bb_ip, allow_imaginary, e_vals, e_vecs, projection_matrix,
                   inverse_projection_matrix, eigh_out, builds, vt_in, pc, frame>>

Next ==
    \/ Call_get_projection_matrix
    \/ Call_get_max_dim
    \/ Call_get_eigenvalues
    \/ Call_get_vectors
    \/ Call_get_tanimotos
    \/ Drop

Spec == Init /\ [][Next]_vars

\* ------------------------------------------- the static vector_tanimotos
\* Arguments of SCISSORS.vector_tanimotos(a, b, a_overlap, b_overlap): a is
\* p x d and b is q x d with entries in -MaxVal..MaxVal; each overlap is
\* omitted, np.ones, or 0, 1, ... down the rows.
VTVals == {R(k) : k \in (-MaxVal)..MaxVal}
VTShapes == {<<1, 1>>, <<1, 2>>, <<2, 1>>}
VTWidths == {0, 1, 2}
VTMats(p, d) == {[r |-> p, c |-> d, e |-> m] : m \in [1..p -> [1..d -> VTVals]]}
VTOverlaps(p) == {None, Ones(p), Vec(p, LAMBDA i : R(i - 1))}

InitVT ==
    /\ \E shape \in VTShapes : \E d \in VTWidths :
         \E a \in VTMats(shape[1], d) : \E b \in VTMats(shape[2], d) :
           \E ao \in VTOverlaps(shape[1]) : \E bo \in VTOverlaps(shape[2]) :
             vt_in = [a |-> a, b |-> b, a_overlap |-> ao, b_overlap |-> bo]
    /\ bb_ip = None
    /\ eigh_out = None
    /\ allow_imaginary = FALSE
    /\ e_vals = None
    /\ e_vecs = None
    /\ projection_matrix = None
    /\ inverse_projection_matrix = None
    /\ builds = 0
    /\ ret = None
    /\ pc = NoThreads
    /\ frame = NoThreads

Outcome(op, out) ==
    [op |-> op, ip |-> None, max_dim |-> None, self_overlap |-> None,
     err |-> out.err, val |-> out.val]

Call_vector_tanimotos ==
    /\ ret = None
    /\ vt_in # None
    /\ ret' = Outcome("vector_tanimotos",
                      vector_tanimotos(vt_in.a, vt_in.b, vt_in.a_overlap, vt_in.b_overlap))
    /\ UNCHANGED <<bb_ip, allow_imaginary, e_vals, e_vecs, projection_matrix,
                   inverse_projection_matrix, eigh_out, builds, vt_in, pc, frame>>

NextVT ==
    \/ Call_vector_tanimotos
    \/ Drop

SpecVT == InitVT /\ [][NextVT]_vars

\* ------------------------------------------------------ concurrent callers
\* Two threads call the lazily building methods on one instance.  The code
\* takes no lock, so a thread can be preempted between any two statements:
\* each of the test for None, lines 63-87 (local variables only), the four
\* assignments of lines 89-92 and the statements after the build is a step.
\* The calls are get_max_dim(), get_eigenvalues() and get_vectors(bb_ip).

\* The methods that test the cache.  get_tanimotos reaches the cache only
\* through its call of get_vectors (line 153) and works on the returned
\* vectors afterwards (lines 154-155): a caller of get_tanimotos takes the
\* steps of a caller of get_vectors.
ConcOps == {"get_max_dim", "get_eigenvalues", "get_vectors"}

At(t, label) == pc[t] = label

Goto(t, label) == pc' = [pc EXCEPT ![t] = label]

ConcUnchanged == UNCHANGED <<bb_ip, allow_imaginary, eigh_out, ret, vt_in>>

\* The call starts; get_vectors passes the assertion of line 126.
T_call(t) ==
    /\ At(t, "idle")
    /\ \E op \in ConcOps : frame' = [frame EXCEPT ![t] = [op |-> op, b |-> None, out |-> None]]
    /\ Goto(t, "check")
    /\ UNCHANGED <<cache, builds>>
    /\ ConcUnchanged

\* T_check with every method testing e_vals, also those that go on to read
\* projection_matrix: the fault C8 guards against.
T_check_e_vals(t) ==
    /\ At(t, "check")
    /\ IF e_vals = None THEN Goto(t, "compute") ELSE Goto(t, "use")
    /\ UNCHANGED <<cache, builds, frame>>
    /\ ConcUnchanged

\* Lines 98, 104, 127: the test of the cached field for None.
T_check(t) ==
    /\ At(t, "check")
    /\ LET field == IF frame[t].op = "get_eigenvalues" THEN e_vals ELSE projection_matrix
       IN  IF field = None THEN Goto(t, "compute") ELSE Goto(t, "use")
    /\ UNCHANGED <<cache, builds, frame>>
    /\ ConcUnchanged

\* Lines 63-87 of get_projection_matrix, on local variables.
T_compute(t) ==
    /\ At(t, "compute")
    /\ frame' = [frame EXCEPT ![t].b = BuildProjection(eigh_out, allow_imaginary)]
    /\ builds' = builds + 1
    /\ Goto(t, "write_e_vals")
    /\ UNCHANGED cache
    /\ ConcUnchanged

\* Line 89
T_write_e_vals(t) ==
    /\ At(t, "write_e_vals")
    /\ e_vals' = frame[t].b.e_vals
    /\ Goto(t, "write_e_vecs")
    /\ UNCHANGED <<e_vecs, projection_matrix, inverse_projection_matrix, builds, frame>>
    /\ ConcUnchanged

\* Line 90
T_write_e_vecs(t) ==
    /\ At(t, "write_e_vecs")
    /\ e_vecs' = frame[t].b.e_vecs
    /\ Goto(t, "write_projection_matrix")
    /\ UNCHANGED <<e_vals, projection_matrix, inverse_projection_matrix, builds, frame>>
    /\ ConcUnchanged

\* Line 91
T_write_projection_matrix(t) ==
    /\ At(t, "write_projection_matrix")
    /\ projection_matrix' = frame[t].b.projection_matrix
    /\ Goto(t, "write_inverse_projection_matrix")
    /\ UNCHANGED <<e_vals, e_vecs, inverse_projection_matrix, builds, frame>>
    /\ ConcUnchanged

\* Line 92
T_write_inverse_projection_matrix(t) ==
    /\ At(t, "write_inverse_projection_matrix")
    /\ inverse_projection_matrix' = frame[t].b.inverse_projection_matrix
    /\ Goto(t, "use")
    /\ UNCHANGED <<e_vals, e_vecs, projection_matrix, builds, frame>>
    /\ ConcUnchanged

\* What the statements after the lazy build return.  Reading .shape of None,
\* or multiplying by np.asmatrix(None), raises.
Use(op) ==
    IF op = "get_eigenvalues" THEN Return(e_vals)
    ELSE IF projection_matrix = None THEN Raise("Exception")
    ELSE IF op = "get_max_dim" THEN Return(projection_matrix.r)
    ELSE get_vectors(Self, bb_ip, None).out

\* Lines 100, 106, 129-134, 153-155: the method reads the cache and returns.
T_use(t) ==
    /\ At(t, "use")
    /\ frame' = [frame EXCEPT ![t].out = Use(frame[t].op)]
    /\ Goto(t, "done")
    /\ UNCHANGED <<cache, builds>>
    /\ ConcUnchanged

\* The caller has its result and is free to call again.
T_return(t) ==
    /\ At(t, "done")
    /\ frame' = [frame EXCEPT ![t] = "idle"]
    /\ Goto(t, "idle")
    /\ UNCHANGED <<cache, builds>>
    /\ ConcUnchanged

NextConc ==
    \E t \in Threads :
        \/ T_call(t)
        \/ T_check(t)
        \/ T_compute(t)
        \/ T_write_e_vals(t)
        \/ T_write_e_vecs(t)
        \/ T_write_projection_matrix(t)
        \/ T_write_inverse_projection_matrix(t)
        \/ T_use(t)
        \/ T_return(t)

SpecConc == Init /\ [][NextConc]_vars

\* ================================================================== claims
Built == projection_matrix # None

\* No call is pending.  Drop leaves the instance as the call left it, so what
\* holds of every built instance between calls holds of every built instance.
BuiltIdle == Built /\ ret = None
Returned(op) == ret # None /\ ret.op = op

\* How often value x occurs in the 1-D array v.
Count(v, x) == Cardinality({i \in 1..v.n : v.e[i] = x})
Values(v) == {v.e[i] : i \in 1..v.n}

\* ---- C1 ----------------------------------------------------------------
\* C1 (as stated): over any sequence of calls to get_max_dim, get_eigenvalues,
\* get_vectors, get_tanimotos and get_projection_matrix the cache is computed
\* and written exactly once: lines 63-92 never run a second time on one
\* instance.
C1_BuiltAtMostOnce == builds <= 1

\* What does hold (C1, weakened): get_max_dim, get_eigenvalues, get_vectors and
\* get_tanimotos build the cache at most once, on first need, and afterwards
\* reuse it; every direct call of get_projection_matrix runs the build again,
\* and a rebuild overwrites the cache with the values it already holds.
C1_OnlyDirectCallsRebuild ==
    [][/\ (ret = None /\ ret' # None /\ ret'.op = "get_projection_matrix")
            => builds' = builds + 1
       /\ (ret = None /\ ret' # None /\ ret'.op # "get_projection_matrix")
            => builds' = (IF ~Built /\ Built' THEN builds + 1 ELSE builds)
       /\ Built => cache' = cache
       /\ Built' => /\ e_vals' # None
                    /\ e_vecs' # None
                    /\ inverse_projection_matrix' # None]_vars

\* A lazy getter has reused the cache of an instance that direct calls built
\* twice.
C1_ReuseAfterRebuild == Returned("get_eigenvalues") /\ Built /\ builds = 2

\* ---- C2 ----------------------------------------------------------------
\* C2: once the projection is built from the n eigenvalues eigh returned,
\* d <= n, no retained eigenvalue is zero, the retained eigenvalues are exactly
\* the strictly positive ones in descending order (allow_imaginary false) or
\* exactly the nonzero ones in order of non-increasing magnitude
\* (allow_imaginary true), and every entry of the projection matrix is finite
\* (1/sqrt(|eigval|) was never taken of zero).
C2_RetainedEigenvalues ==
    BuiltIdle =>
        LET w == eigh_out.w
            Keep(x) == IF allow_imaginary THEN x # Zero ELSE RLess(Zero, x)
            Key(x) == IF allow_imaginary THEN Fabs(x) ELSE x
        IN  /\ e_vals.n <= bb_ip.r
            /\ e_vals.n = Cardinality({i \in 1..w.n : Keep(w.e[i])})
            /\ \A i \in 1..e_vals.n : e_vals.e[i] # Zero
            /\ \A x \in Values(w) \cup Values(e_vals) :
                   Count(e_vals, x) = (IF Keep(x) THEN Count(w, x) ELSE 0)
            /\ \A i \in 1..e_vals.n : \A j \in 1..e_vals.n :
                   i < j => ~RLess(Key(e_vals.e[i]), Key(e_vals.e[j]))
            /\ AllFinite(projection_matrix)
            /\ AllFinite(inverse_projection_matrix)

\* Built from eigenvalues that include a zero and a negative one, some kept
\* and some dropped.
C2_ZeroDropped ==
    /\ BuiltIdle
    /\ Zero \in Values(eigh_out.w)
    /\ R(-1) \in Values(eigh_out.w)
    /\ e_vals.n >= 1
    /\ e_vals.n < bb_ip.r

\* ---- C4 ----------------------------------------------------------------
\* The call C4 is about: get_tanimotos(ip = bb_ip) with self_overlap and
\* max_dim omitted, returned.
SelfEmbedded ==
    /\ Returned("get_tanimotos")
    /\ ret.ip = bb_ip
    /\ ret.self_overlap = None
    /\ ret.max_dim = None

\* Row i of the embedding of the basis, (P K^T)^T = K P^T.
BasisVector(i) ==
    [j \in 1..projection_matrix.r |->
        SumTo(LAMBDA k : RMul(bb_ip.e[i][k], projection_matrix.e[j][k]), bb_ip.c)]

IsZeroVector(v) == \A j \in DOMAIN v : v[j] = Zero

\* C4 (as stated): embedding the basis itself and taking the Tanimotos of the
\* embedded vectors against themselves gives 1 on the whole diagonal, for
\* every kernel matrix and every basis object.
C4_DiagonalAllOnes ==
    SelfEmbedded =>
        /\ ret.err = "None"
        /\ \A i \in 1..bb_ip.r : ret.val.e[i][i] = One

\* C4 (amended): the diagonal entry of basis object i is 1 when its embedded
\* vector is nonzero and 0 when its embedded vector is the zero vector (every
\* object when d = 0; an object whose kernel row has no component along a
\* retained eigenvector).
C4_DiagonalOneUnlessZeroVector ==
    SelfEmbedded =>
        /\ ret.err = "None"
        /\ ret.val.r = bb_ip.r
        /\ ret.val.c = bb_ip.r
        /\ \A i \in 1..bb_ip.r :
               ret.val.e[i][i] = (IF IsZeroVector(BasisVector(i)) THEN Zero ELSE One)

\* A self-embedding with both kinds of basis object on the diagonal.
C4_MixedDiagonal ==
    /\ SelfEmbedded
    /\ \E i \in 1..bb_ip.r : ret.val.e[i][i] = One
    /\ \E i \in 1..bb_ip.r : ret.val.e[i][i] = Zero

\* ---- C5 ----------------------------------------------------------------
\* No eigenvalue meets the retention criterion of the instance's mode.
NothingRetained ==
    \A i \in 1..eigh_out.w.n :
        IF allow_imaginary THEN eigh_out.w.e[i] = Zero
        ELSE ~RLess(Zero, eigh_out.w.e[i])

\* Arguments a call accepts: n columns, max_dim None or an int, self_overlap
\* None or one value per row.
ValidArgs ==
    /\ ret.ip.c = bb_ip.r
    /\ ret.max_dim # None => ret.max_dim.type = "int"
    /\ ret.self_overlap # None => ret.self_overlap.n = ret.ip.r

\* C5: when no eigenvalue is retained (d = 0) nothing fails: the projection
\* matrix is 0 x n, get_max_dim returns 0, get_eigenvalues returns an empty
\* array, get_vectors on m rows returns an m x 0 array and get_tanimotos on m
\* rows returns an m x m array of zeros.
C5_ZeroDimensional ==
    NothingRetained =>
        /\ Built => /\ projection_matrix.r = 0
                    /\ projection_matrix.c = bb_ip.r
                    /\ e_vals.n = 0
        /\ Returned("get_projection_matrix") => ret.err = "None" /\ ret.val.r = 0
        /\ Returned("get_max_dim") => ret.err = "None" /\ ret.val = 0
        /\ Returned("get_eigenvalues") => ret.err = "None" /\ ret.val.n = 0
        /\ Returned("get_vectors") /\ ValidArgs =>
               /\ ret.err = "None"
               /\ ret.val.r = ret.ip.r
               /\ ret.val.c = 0
        /\ Returned("get_tanimotos") /\ ValidArgs =>
               /\ ret.err = "None"
               /\ ret.val.r = ret.ip.r
               /\ ret.val.c = ret.ip.r
               /\ \A i \in 1..ret.ip.r : \A j \in 1..ret.ip.r : ret.val.e[i][j] = Zero

\* get_tanimotos has returned for several rows on an instance with a negative
\* eigenvalue and nothing retained.
C5_TanimotosOfNothing ==
    /\ NothingRetained
    /\ R(-1) \in Values(eigh_out.w)
    /\ Returned("get_tanimotos")
    /\ ValidArgs
    /\ ret.ip.r >= 2
    /\ ret.err = "None"

\* ---- C6 ----------------------------------------------------------------
\* A step in which get_vectors or get_tanimotos returns for an ip whose column
\* count is not the basis size.
MismatchedCall ==
    /\ ret = None
    /\ ret' # None
    /\ ret'.op \in {"get_vectors", "get_tanimotos"}
    /\ ret'.ip.c # bb_ip.r

\* C6: such a call raises (the assertion of line 126) and returns nothing,
\* before any lazy build: the four cached fields, bb_ip, allow_imaginary and
\* the number of builds are as before the call.
C6_MismatchLeavesCache ==
    [][MismatchedCall =>
          /\ ret'.err = "AssertionError"
          /\ ret'.val = None
          /\ UNCHANGED <<cache, bb_ip, allow_imaginary, builds>>]_vars

\* A mismatched get_tanimotos has raised on an instance that is still unbuilt.
C6_RaisedUnbuilt ==
    /\ Returned("get_tanimotos")
    /\ ret.ip.c # bb_ip.r
    /\ ret.err = "AssertionError"
    /\ ~Built
    /\ e_vals = None

\* ---- C7 ----------------------------------------------------------------
\* The untruncated embedding of the rows of ip: (P ip^T)^T.
FullEmbedding(ip) == Transpose(MatMul(projection_matrix, Transpose(ip)))

Min(a, b) == IF a < b THEN a ELSE b

\* C7 (as stated): get_vectors takes max_dim only as a non-negative integer:
\* max_dim = k >= 0 gives exactly the first min(k, d) columns of the untruncated
\* embedding, and a negative max_dim is rejected, returning no vectors.
C7_MaxDimNonNegative ==
    (Returned("get_vectors") /\ ret.ip.c = bb_ip.r
        /\ ret.max_dim # None /\ ret.max_dim.type = "int") =>
        LET k == ret.max_dim.v
            full == FullEmbedding(ret.ip)
        IN  IF k >= 0
            THEN /\ ret.err = "None"
                 /\ ret.val = Mat(full.r, Min(k, full.c), LAMBDA i, j : full.e[i][j])
            ELSE /\ ret.err # "None"
                 /\ ret.val = None

\* get_vectors has returned the first k columns for a k with 0 < k < d.
C7_Truncated ==
    /\ Returned("get_vectors")
    /\ ret.err = "None"
    /\ ret.max_dim # None
    /\ ret.max_dim.type = "int"
    /\ ret.max_dim.v >= 1
    /\ ret.val.c = ret.max_dim.v
    /\ ret.val.c < projection_matrix.r

\* ---- C9 ----------------------------------------------------------------
\* The kernel matrix is positive semidefinite.
PSD == \A i \in 1..eigh_out.w.n : ~RLess(eigh_out.w.e[i], Zero)

\* K restricted to its positive-eigenvalue subspace: the sum of w_i v_i v_i^T
\* over the eigen-pairs of K with w_i > 0.
PositivePart ==
    LET w == eigh_out.w
    IN  Recompose(Vec(w.n, LAMBDA i : IF RLess(Zero, w.e[i]) THEN w.e[i] ELSE Zero),
                  eigh_out.v)

\* D^(-2) and D^(-4) for D = diag(1/sqrt(|eigval_i|)) over the retained
\* eigenvalues: diag(|eigval_i|) and diag(eigval_i^2).
DPowerMinus2 == Diag(Vec(e_vals.n, LAMBDA i : Fabs(e_vals.e[i])))
DPowerMinus4 == Diag(Vec(e_vals.n, LAMBDA i : RMul(e_vals.e[i], e_vals.e[i])))

Sandwich(m) == MatMul(MatMul(Transpose(projection_matrix), m), projection_matrix)

\* C9 (as stated): for a positive-semidefinite K, P^T D^(-2) P equals K
\* restricted to its positive-eigenvalue subspace.
C9_ReconstructsKernel ==
    (BuiltIdle /\ PSD) => Sandwich(DPowerMinus2) = PositivePart

\* C9 (amended): for a positive-semidefinite K, P^T D^(-2) P is V V^T, the
\* orthogonal projector onto the positive-eigenvalue subspace (the scalings
\* cancel); K restricted to that subspace, which is K itself, is
\* P^T D^(-4) P, and equally P_inv P_inv^T.
C9_ReconstructsProjector ==
    (BuiltIdle /\ PSD) =>
        /\ Sandwich(DPowerMinus2) = MatMul(e_vecs, Transpose(e_vecs))
        /\ Sandwich(DPowerMinus4) = PositivePart
        /\ MatMul(inverse_projection_matrix, Transpose(inverse_projection_matrix))
               = PositivePart
        /\ PositivePart = bb_ip

\* Built from a positive-semidefinite kernel that is not diagonal and has the
\* eigenvalues 0 and 4.
C9_BuiltFromPSD ==
    /\ BuiltIdle
    /\ PSD
    /\ eigh_out.w.n = 2
    /\ eigh_out.w.e[1] = Zero
    /\ eigh_out.w.e[2] = R(4)
    /\ bb_ip.e[1][2] # Zero

\* ---- C3 ----------------------------------------------------------------
\* The inner product of row i of a and row j of b.
Dot(a, i, b, j) == SumTo(LAMBDA k : RMul(a.e[i][k], b.e[j][k]), a.c)

\* The self-overlap of row i of a: the value supplied, else its squared norm.
Overlap(a, ov, i) == IF ov = None THEN Dot(a, i, a, i) ELSE ov.e[i]

\* The denominator of cell (i, j): a_overlap_i + b_overlap_j - AB_ij.
Denominator(in, i, j) ==
    RSub(RAdd(Overlap(in.a, in.a_overlap, i), Overlap(in.b, in.b_overlap, j)),
         Dot(in.a, i, in.b, j))

\* C3: vector_tanimotos of a (p x d) and b (q x d) returns, without raising, a
\* p x q array whose cell (i, j) is AB_ij / (a_overlap_i + b_overlap_j - AB_ij)
\* where that denominator is nonzero and exactly 0 where it is zero.
C3_TanimotoCells ==
    Returned("vector_tanimotos") =>
        /\ ret.err = "None"
        /\ ret.val.r = vt_in.a.r
        /\ ret.val.c = vt_in.b.r
        /\ \A i \in 1..vt_in.a.r : \A j \in 1..vt_in.b.r :
               LET den == Denominator(vt_in, i, j)
               IN  /\ IsFinite(ret.val.e[i][j])
                   /\ IF den = Zero THEN ret.val.e[i][j] = Zero
                      ELSE RMul(ret.val.e[i][j], den) = Dot(vt_in.a, i, vt_in.b, j)

\* A cell with a zero denominator and a nonzero numerator has been filled,
\* beside a cell with a nonzero denominator.
C3_ZeroDenominatorFilled ==
    /\ Returned("vector_tanimotos")
    /\ \E i \in 1..vt_in.a.r : \E j \in 1..vt_in.b.r :
           /\ Denominator(vt_in, i, j) = Zero
           /\ Dot(vt_in.a, i, vt_in.b, j) # Zero
    /\ \E i \in 1..vt_in.a.r : \E j \in 1..vt_in.b.r :
           /\ Denominator(vt_in, i, j) # Zero
           /\ ret.val.e[i][j] # Zero

\* ---- C10 ---------------------------------------------------------------
\* C10: vector_tanimotos(A, B) is the transpose of vector_tanimotos(B, A),
\* the overlaps defaulted or swapped together with their sets, zero
\* denominators included.
C10_SwapTransposes ==
    Returned("vector_tanimotos") =>
        LET swapped == vector_tanimotos(vt_in.b, vt_in.a, vt_in.b_overlap, vt_in.a_overlap)
        IN  /\ swapped.err = ret.err
            /\ swapped.val = Transpose(ret.val)

\* A result that is not square, with unequal cells and a filled zero
\* denominator.
C10_RectangularResult ==
    /\ Returned("vector_tanimotos")
    /\ ret.err = "None"
    /\ ret.val.r = 2
    /\ ret.val.c = 1
    /\ ret.val.e[1][1] # ret.val.e[2][1]
    /\ \E i \in 1..2 : Denominator(vt_in, i, 1) = Zero

\* ---- C8 ----------------------------------------------------------------
\* C8 (as stated): when two callers invoke lazily building methods on one
\* uninitialized instance, the build is guarded against re-entry: in every
\* interleaving lines 63-92 run at most once.
C8_SingleBuild == builds <= 1

\* The instance as constructed, and what a call returns when it runs alone.
Fresh ==
    [Self EXCEPT !.e_vals = None, !.e_vecs = None, !.projection_matrix = None,
                 !.inverse_projection_matrix = None]

Alone(op) ==
    IF op = "get_max_dim" THEN get_max_dim(Fresh).out
    ELSE IF op = "get_eigenvalues" THEN get_eigenvalues(Fresh).out
    ELSE get_vectors(Fresh, bb_ip, None).out

\* C8 (amended): the lazy build is not guarded.  With two callers on one
\* instance the build runs at most once per caller, so at most twice; every
\* run stores the same values, so every call returns what it returns when
\* run alone, and when no call is in progress a built cache holds what a
\* single build stores.
C8_BuildPerCaller ==
    /\ builds <= Cardinality(Threads)
    /\ \A t \in Threads : pc[t] = "done" => frame[t].out = Alone(frame[t].op)
    /\ ((\A t \in Threads : pc[t] = "idle") /\ projection_matrix # None)
           => Self = get_projection_matrix(Fresh).self

\* Both callers are inside the build at once.
C8_BothBuilding ==
    /\ builds = 2
    /\ \A t \in Threads :
           pc[t] \in {"write_e_vals", "write_e_vecs", "write_projection_matrix",
                      "write_inverse_projection_matrix"}

\* ---- C11 ---------------------------------------------------------------
\* The four cached fields are all unset.
CacheUnset ==
    /\ e_vals = None
    /\ e_vecs = None
    /\ projection_matrix = None
    /\ inverse_projection_matrix = None

\* The four cached fields are all set and have the shapes of one d <= n.
CacheAgreesOn(d, n) ==
    /\ e_vals # None
    /\ e_vecs # None
    /\ projection_matrix # None
    /\ inverse_projection_matrix # None
    /\ d <= n
    /\ e_vals.n = d
    /\ e_vecs.r = n
    /\ e_vecs.c = d
    /\ projection_matrix.r = d
    /\ projection_matrix.c = n
    /\ inverse_projection_matrix.r = n
    /\ inverse_projection_matrix.c = d

\* C11: after any sequence of completed calls the four cached fields are
\* either all unset or all set, and when set they agree on one d <= n: e_vals
\* has length d, e_vecs is n x d, projection_matrix is d x n and
\* inverse_projection_matrix is n x d.  So when get_max_dim has returned, a
\* call of get_eigenvalues returns that many eigenvalues, and when
\* get_eigenvalues has returned, a call of get_max_dim returns their number.
C11_CacheAllOrNothing ==
    /\ \/ CacheUnset
       \/ \E d \in 0..bb_ip.r : CacheAgreesOn(d, bb_ip.r)
    /\ Returned("get_max_dim") =>
           /\ ret.err = "None"
           /\ get_eigenvalues(Self).out.val.n = ret.val
    /\ Returned("get_eigenvalues") =>
           /\ ret.err = "None"
           /\ get_max_dim(Self).out.val = ret.val.n

\* get_eigenvalues was the first call on the instance, built the cache, and
\* returned some but not all of the n eigenvalues.
C11_EigenvaluesFirst ==
    /\ Returned("get_eigenvalues")
    /\ builds = 1
    /\ ret.val.n >= 1
    /\ ret.val.n < bb_ip.r
    /\ projection_matrix.r = ret.val.n

====
